---- MODULE Spec2Model ----
(***************************************************************************)
(* A model of mht_unpack.py: the index built by Mapped.__init__, the       *)
(* recursive Mapped.render with the two storage mixins (InlineData and     *)
(* DataDirectory), and the __main__ driver.                                *)
(*                                                                         *)
(* The recursion of render / render_data is an explicit stack of frames,   *)
(* one frame per active render call; one action handles one reference      *)
(* attribute of the document on top of the stack.                          *)
(*                                                                         *)
(* A URL is a record [scheme, path]; all http URLs live in one directory   *)
(* of one host (http://h/<path>).  A payload is the sequence of the values *)
(* of its reference attributes, in document order; the documents have no   *)
(* <base> element.  Multipart containers carry no Content-ID and no        *)
(* Content-Location.                                                       *)
(***************************************************************************)
EXTENDS Integers, Sequences, FiniteSets, TLC

VARIABLES variant, argv, cur, pc, mapper, stack, store, writes, rootOut,
          ret, runs, diag

vars == <<variant, argv, cur, pc, mapper, stack, store, writes, rootOut,
          ret, runs, diag>>

(* ------------------------------ bounds --------------------------------- *)

\* most reference attributes in one payload
MaxRefs == 2
\* most reference attributes in one message (reference-graph family)
MaxEdges == 3
\* most files in the backing store before the first conversion
MaxPre == 1
\* most invocations of the program against one backing store
MaxRuns == 2
\* the interpreter's bound on nested render frames (sys.getrecursionlimit())
RecursionLimit == 6

(* ------------------------------ values --------------------------------- *)

None == [none |-> "None"]

Url(s, p) == [scheme |-> s, path |-> p]

Empty == Url("", "")

Rel(n) == Url("", n)

Http(n) == Url("http", n)

CidUrl(n) == Url("cid", n)

\* a Content-ID / start value: <id> (br) or id
Key(b, n) == [br |-> b, id |-> n]

HTML == "text/html"

PLAIN == "text/plain"

(* ------------------------ library functions ---------------------------- *)

\* urllib.parse.urljoin on the URLs above
UrlJoin(base, url) ==
    IF base = Empty THEN url
    ELSE IF url = Empty THEN base
    ELSE IF url.scheme # "" THEN url
    ELSE IF base.scheme = "cid" THEN url
    ELSE Url(base.scheme, url.path)

\* str.strip("<>") on a Content-ID
StripBrackets(k) == Key(FALSE, k.id)

\* every reference value of the model, in a fixed order
AllHrefs == <<Empty, Rel("a"), Rel("b"), Rel("c"), CidUrl("a"), Http("a")>>

HrefCode(h) == CHOOSE k \in 1..Len(AllHrefs) : AllHrefs[k] = h

\* hashlib.sha256 + urlsafe_b64encode: an injective code of the payload
RECURSIVE Sha256(_)
Sha256(payload) ==
    IF payload = <<>> THEN 1
    ELSE Sha256(SubSeq(payload, 1, Len(payload) - 1)) * (Len(AllHrefs) + 1)
         + HrefCode(payload[Len(payload)])

(* --------------------------- find_extension ---------------------------- *)

common_types == [t \in {HTML, PLAIN} |-> IF t = HTML THEN ".html" ELSE ".txt"]

find_extension(mime_type) == common_types[mime_type]

(* ------------------------------ PartHelper ----------------------------- *)

PartHelper(part) ==
    [content_type |-> part.ctype,
     payload      |-> part.payload,
     extension    |-> find_extension(part.ctype),
     digest       |-> Sha256(part.payload)]

\* "blob={0}{1}".format(helper.digest, helper.extension)
BlobPath(helper) == [blob |-> helper.digest, ext |-> helper.extension]

(* ---------------------------- Mapped.__init__ -------------------------- *)

Put(f, k, v) == [x \in DOMAIN f \cup {k} |-> IF x = k THEN v ELSE f[x]]

\* dict.get(k, None): 0 stands for None
Get(f, k) == IF k \in DOMAIN f THEN f[k] ELSE 0

EmptyDict == [k \in {} |-> 0]

RECURSIVE IndexByLoc(_, _)
IndexByLoc(walk, n) ==
    IF n = 0 THEN EmptyDict
    ELSE LET prev == IndexByLoc(walk, n - 1)
             part == walk[n]
         IN  IF part.loc = None THEN prev
             ELSE Put(prev, UrlJoin(part.cbase, part.loc), n)

RECURSIVE IndexById(_, _)
IndexById(walk, n) ==
    IF n = 0 THEN EmptyDict
    ELSE LET prev == IndexById(walk, n - 1)
             part == walk[n]
         IN  IF part.cid = None THEN prev
             ELSE Put(Put(prev, StripBrackets(part.cid), n), part.cid, n)

Starts(walk) == {walk[n].start : n \in 1..Len(walk)} \ {None}

Mapped(walk) ==
    [by_loc |-> IndexByLoc(walk, Len(walk)),
     by_id  |-> IndexById(walk, Len(walk)),
     starts |-> Starts(walk)]

NoMapper == [by_loc |-> EmptyDict, by_id |-> EmptyDict, starts |-> {}]

(* ----------------------------- Mapped.render --------------------------- *)

\* loc = part.get('Content-Location', "").strip();
\* base = urljoin(loc, part.get('Content-Base', ""))
EffectiveBase(part) ==
    UrlJoin(IF part.loc = None THEN Empty ELSE part.loc, part.cbase)

\* mutant: the literal value is tried as a location before the scheme is read
ResolveLocFirst(m, part, href) ==
    IF Get(m.by_loc, UrlJoin(EffectiveBase(part), href)) # 0
    THEN Get(m.by_loc, UrlJoin(EffectiveBase(part), href))
    ELSE Get(m.by_id, Key(FALSE, href.path))

\* the part a reference value names, 0 for None
Resolve(m, part, href) ==
    IF href.scheme = "cid"
    THEN Get(m.by_id, Key(FALSE, href.path))
    ELSE Get(m.by_loc, UrlJoin(EffectiveBase(part), href))

\* mutant: the attribute is assigned whatever render_data returned
SetAttrAlways(doc, i, href) == [doc EXCEPT ![i] = href]

\* if href is not None: tag[attr] = href
SetAttr(doc, i, href) ==
    IF href = None THEN doc ELSE [doc EXCEPT ![i] = href]

\* the frame of a render call that has just been entered
Frame(n, helper, seen, path) ==
    [part |-> n, seen |-> seen, i |-> 1, doc |-> helper.payload, path |-> path]

\* mutant: one mutable guard set shared with the calls made
AfterCallSharedSeen(frame, href) ==
    [frame EXCEPT !.i = @ + 1, !.doc = SetAttr(@, frame.i, href),
                  !.seen = IF href = None THEN @ ELSE @ \cup {href.blob}]

\* the caller's frame once render_data has returned href
AfterCall(frame, href) ==
    [frame EXCEPT !.i = @ + 1, !.doc = SetAttr(@, frame.i, href)]

(* ------------------------------ render_data ---------------------------- *)

\* mutant: membership of the helper object, which no guard set holds
InSeenIdentity(helper, seen) == FALSE

\* helper.digest in seen
InSeen(helper, seen) == helper.digest \in seen

\* mutant: the nested render gets the caller's guard set
ExtendSeenNoAdd(seen, helper) == seen

\* the guard of the nested render: seen | { helper.digest }
ExtendSeen(seen, helper) == seen \cup {helper.digest}

\* mutant: the existence check is dropped
ExistsNever(path, files) == FALSE

\* op.exists(path)
Exists(path, files) == path \in files

(* ------------------------------- __main__ ------------------------------ *)

\* the first part of mess.walk() that is not multipart, 0 for None
RECURSIVE FirstLeaf(_, _)
FirstLeaf(walk, n) ==
    IF n > Len(walk) THEN 0
    ELSE IF ~walk[n].multipart THEN n
    ELSE FirstLeaf(walk, n + 1)

\* mutant: the start parameters are ignored
SelectRootFirstLeaf(m, walk) ==
    IF FirstLeaf(walk, 1) # 0 THEN {FirstLeaf(walk, 1)} ELSE {}

\* the parts the two loops of the driver can leave in root ({} for None);
\* mapper.starts is a set, iterated in any order
SelectRoot(m, walk) ==
    LET found == {Get(m.by_id, start) : start \in m.starts} \ {0}
    IN  IF found # {} THEN found
        ELSE IF FirstLeaf(walk, 1) # 0 THEN {FirstLeaf(walk, 1)}
        ELSE {}

(* ------------------------------- messages ------------------------------ *)

Leaf(cid, loc, cbase, ctype, payload) ==
    [multipart |-> FALSE, start |-> None, cid |-> cid, loc |-> loc,
     cbase |-> cbase, ctype |-> ctype, payload |-> payload]

Container(start) ==
    [multipart |-> TRUE, start |-> start, cid |-> None, loc |-> None,
     cbase |-> Empty, ctype |-> "multipart/related", payload |-> <<>>]

SeqsUpTo(S, n) == UNION {[1..k -> S] : k \in 0..n}

\* reference graphs: three parts at the locations a, b, c, any references
\* among them, the first part the HTML root
GraphPayloads ==
    {t \in SeqsUpTo({Rel("a"), Rel("b"), Rel("c")}, MaxRefs)
           \X SeqsUpTo({Rel("a"), Rel("b"), Rel("c")}, MaxRefs)
           \X SeqsUpTo({Rel("a"), Rel("b"), Rel("c")}, MaxRefs) :
        Len(t[1]) + Len(t[2]) + Len(t[3]) <= MaxEdges}

GraphMessages ==
    {<<Container(None),
       Leaf(None, Rel("a"), Empty, HTML, t[1]),
       Leaf(None, Rel("b"), Empty, ty[1], t[2]),
       Leaf(None, Rel("c"), Empty, ty[2], t[3])>> :
        t \in GraphPayloads, ty \in {HTML, PLAIN} \X {HTML, PLAIN}}

\* headers: an HTML root with any location and base, a part with any
\* Content-ID and Content-Location, and optionally a later part under the
\* same keys
HeaderMessages ==
    {<<Container(None),
       Leaf(None, h[1], h[2], HTML, p),
       Leaf(k[1], k[2], k[3], PLAIN, <<>>)>> \o last :
        p \in SeqsUpTo({Empty, Rel("a"), CidUrl("a"), Http("a")}, MaxRefs),
        h \in {None, Rel("r"), Http("r")} \X {Empty, Http("")},
        k \in ({None, Key(TRUE, "a"), Key(FALSE, "a")}
                 \X {Rel("a"), CidUrl("a")} \X {Empty, Http("")})
              \cup ({None, Key(TRUE, "a"), Key(FALSE, "a")}
                 \X {None} \X {Empty}),
        last \in {<<>>,
                  <<Leaf(Key(TRUE, "a"), Rel("a"), Empty, PLAIN, <<Rel("c")>>)>>}}

\* entry points: start parameters and Content-IDs over a container and
\* three parts, the last two of them leaves
StartMessages ==
    {<<Container(s), x, Leaf(c[1], None, Empty, HTML, <<>>),
       Leaf(c[2], None, Empty, PLAIN, <<Rel("b")>>)>> :
        s \in {None, Key(TRUE, "a"), Key(FALSE, "a"), Key(TRUE, "b")},
        x \in {Container(None), Container(Key(TRUE, "b")),
               Leaf(None, None, Empty, PLAIN, <<Rel("a")>>),
               Leaf(Key(TRUE, "a"), None, Empty, PLAIN, <<Rel("a")>>)},
        c \in {None, Key(TRUE, "a"), Key(TRUE, "b"), Key(FALSE, "a")}
              \X {None, Key(TRUE, "a"), Key(TRUE, "b"), Key(FALSE, "a")}}

\* a message that is a single HTML part
Single == <<Leaf(None, None, Empty, HTML, <<>>)>>

Leaves(walk) == {n \in 1..Len(walk) : ~walk[n].multipart}

BlobsOf(walk) == {BlobPath(PartHelper(walk[n])) : n \in Leaves(walk)}

(* -------------------------------- Init --------------------------------- *)

Init ==
    /\ variant \in {"inline", "dir"}
    /\ \/ /\ argv \in {<<m>> : m \in GraphMessages}
          /\ store \in {f \in SUBSET BlobsOf(argv[1]) :
                          /\ Cardinality(f) <= MaxPre
                          /\ variant = "inline" => f = {}}
       \/ /\ argv \in {<<m>> : m \in HeaderMessages}
          /\ store = {}
       \/ /\ argv \in {<<m>> : m \in StartMessages}
                      \cup {<<m, Single>> : m \in StartMessages}
          /\ store = {}
    /\ cur = 1
    /\ pc = "driver"
    /\ mapper = NoMapper
    /\ stack = <<>>
    /\ writes = <<>>
    /\ rootOut = <<>>
    /\ ret = None
    /\ runs = 1
    /\ diag = 0

(* ------------------------------- actions ------------------------------- *)

Walk == argv[cur]

Top == stack[Len(stack)]

TopPart == Walk[Top.part]

TopHelper == PartHelper(TopPart)

\* render is at a reference attribute of the document on top of the stack
AtAttr ==
    /\ pc = "render"
    /\ stack # <<>>
    /\ TopHelper.content_type = HTML
    /\ Top.i <= Len(Top.doc)

Href == Top.doc[Top.i]

Mref == Resolve(mapper, TopPart, Href)

Target == PartHelper(Walk[Mref])

\* render_data returns href to the render call on top of the stack
Returns(href) ==
    /\ stack' = [stack EXCEPT ![Len(stack)] = AfterCall(@, href)]
    /\ ret' = href
    /\ UNCHANGED <<variant, argv, cur, pc, mapper, store, writes, rootOut,
                   runs, diag>>

\* one iteration of "for path in sys.argv[1:]" up to the call of render
DriverSelect ==
    /\ pc = "driver"
    /\ cur <= Len(argv)
    /\ LET m == Mapped(Walk)
       IN  /\ mapper' = m
           /\ IF SelectRoot(m, Walk) = {}
              THEN /\ diag' = diag + 1
                   /\ cur' = cur + 1
                   /\ pc' = IF cur + 1 > Len(argv) THEN "exit" ELSE "driver"
                   /\ stack' = stack
              ELSE /\ \E root \in SelectRoot(m, Walk) :
                        stack' = <<Frame(root, PartHelper(Walk[root]), {}, None)>>
                   /\ pc' = "render"
                   /\ UNCHANGED <<diag, cur>>
    /\ UNCHANGED <<variant, argv, store, writes, rootOut, ret, runs>>

\* if not href: continue
SkipEmpty ==
    /\ AtAttr
    /\ Href = Empty
    /\ stack' = [stack EXCEPT ![Len(stack)].i = @ + 1]
    /\ UNCHANGED <<variant, argv, cur, pc, mapper, store, writes, rootOut,
                   ret, runs, diag>>

\* render_data(None, seen)
Unresolved ==
    /\ AtAttr
    /\ Href # Empty
    /\ Mref = 0
    /\ Returns(None)

\* render_data of a part whose digest is in seen
SeenHit ==
    /\ AtAttr
    /\ Href # Empty
    /\ Mref # 0
    /\ InSeen(Target, Top.seen)
    /\ Returns(IF variant = "dir" THEN BlobPath(Target) ELSE None)

\* DataDirectory.render_data of a part whose file exists
BlobExists ==
    /\ AtAttr
    /\ variant = "dir"
    /\ Href # Empty
    /\ Mref # 0
    /\ ~InSeen(Target, Top.seen)
    /\ Exists(BlobPath(Target), store)
    /\ Returns(BlobPath(Target))

\* DataDirectory.render_data calls self.render(helper, seen | {digest})
RenderNested ==
    /\ AtAttr
    /\ variant = "dir"
    /\ Href # Empty
    /\ Mref # 0
    /\ ~InSeen(Target, Top.seen)
    /\ ~Exists(BlobPath(Target), store)
    /\ IF Len(stack) >= RecursionLimit
       THEN /\ pc' = "RecursionError"
            /\ stack' = <<>>
       ELSE /\ pc' = pc
            /\ stack' = Append(stack, Frame(Mref, Target,
                                ExtendSeen(Top.seen, Target), BlobPath(Target)))
    /\ UNCHANGED <<variant, argv, cur, mapper, store, writes, rootOut, ret,
                   runs, diag>>

\* InlineData.render_data evaluates seen | {ph}: ph is not defined
InlineNameError ==
    /\ AtAttr
    /\ variant = "inline"
    /\ Href # Empty
    /\ Mref # 0
    /\ ~InSeen(Target, Top.seen)
    /\ pc' = "NameError"
    /\ stack' = <<>>
    /\ UNCHANGED <<variant, argv, cur, mapper, store, writes, rootOut, ret,
                   runs, diag>>

\* the bytes render returns: doc.encode() or the payload
Rendered(frame, helper) ==
    IF helper.content_type = HTML THEN frame.doc ELSE helper.payload

\* render returns; a nested call returns into render_data, which writes the
\* file and returns its path
RenderReturn ==
    /\ pc = "render"
    /\ stack # <<>>
    /\ ~AtAttr
    /\ IF Len(stack) = 1
       THEN /\ rootOut' = Rendered(Top, TopHelper)
            /\ pc' = "returned"
            /\ stack' = <<>>
            /\ UNCHANGED <<store, writes, ret>>
       ELSE /\ store' = store \cup {Top.path}
            /\ writes' = Append(writes,
                           [path |-> Top.path, binary |-> Rendered(Top, TopHelper),
                            existed |-> Top.path \in store, run |-> runs])
            /\ stack' = [SubSeq(stack, 1, Len(stack) - 1)
                           EXCEPT ![Len(stack) - 1] = AfterCall(@, Top.path)]
            /\ ret' = Top.path
            /\ UNCHANGED <<pc, rootOut>>
    /\ UNCHANGED <<variant, argv, cur, mapper, runs, diag>>

\* new_path = op.split_ext(path)[0] + ".conv.html": os.path has no split_ext
DriverWriteOutput ==
    /\ pc = "returned"
    /\ pc' = "AttributeError"
    /\ UNCHANGED <<variant, argv, cur, mapper, stack, store, writes, rootOut,
                   ret, runs, diag>>

\* the program is run again on the same arguments and backing store
Restart ==
    /\ pc \in {"NameError", "AttributeError", "RecursionError", "exit"}
    /\ runs < MaxRuns
    /\ runs' = runs + 1
    /\ cur' = 1
    /\ pc' = "driver"
    /\ mapper' = NoMapper
    /\ stack' = <<>>
    /\ rootOut' = <<>>
    /\ ret' = None
    /\ diag' = 0
    /\ UNCHANGED <<variant, argv, store, writes>>

Next ==
    \/ DriverSelect
    \/ SkipEmpty
    \/ Unresolved
    \/ SeenHit
    \/ BlobExists
    \/ RenderNested
    \/ InlineNameError
    \/ RenderReturn
    \/ DriverWriteOutput
    \/ Restart

Spec == Init /\ [][Next]_vars

FairSpec == Init /\ [][Next]_vars /\ WF_vars(Next)

(* ------------------------- properties: helpers ------------------------- *)

Max(S) == CHOOSE x \in S : \A y \in S : y <= x

\* render is about to resolve a non-empty reference attribute
StepAtRef == AtAttr /\ Href # Empty

\* the last part of the walk filed under Content-ID key k, 0 if none
LastWithId(walk, k) ==
    LET S == {n \in 1..Len(walk) :
                /\ walk[n].cid # None
                /\ (walk[n].cid = k \/ Key(FALSE, walk[n].cid.id) = k)}
    IN  IF S = {} THEN 0 ELSE Max(S)

\* the last part of the walk whose joined Content-Location is u, 0 if none
LastAtLocation(walk, u) ==
    LET S == {n \in 1..Len(walk) :
                /\ walk[n].loc # None
                /\ UrlJoin(walk[n].cbase, walk[n].loc) = u}
    IN  IF S = {} THEN 0 ELSE Max(S)

\* the part a reference value of part names, read off the headers
ExpectedTarget(walk, part, href) ==
    IF href.scheme = "cid"
    THEN LastWithId(walk, Key(FALSE, href.path))
    ELSE LastAtLocation(walk, UrlJoin(EffectiveBase(part), href))

\* the parts named by the start parameters of the walk
StartParts(walk) ==
    {LastWithId(walk, walk[n].start) :
        n \in {k \in 1..Len(walk) : walk[k].start # None}} \ {0}

FileOf(walk, n) ==
    [blob |-> Sha256(walk[n].payload), ext |-> find_extension(walk[n].ctype)]

IsBlob(v) == "blob" \in DOMAIN v

\* the blob filenames among the attribute values of a rendered document
BlobsIn(doc) == {doc[k] : k \in {j \in 1..Len(doc) : IsBlob(doc[j])}}

\* the files written by the conversion in progress
WritesOfRun == {k \in 1..Len(writes) : writes[k].run = runs}

(* ------------------------------ properties ----------------------------- *)

\* the digests a guard set can hold: those of the parts of the message
Digests(walk) == {Sha256(walk[n].payload) : n \in Leaves(walk)}

LongestDoc(walk) == Max({Len(walk[n].payload) : n \in 1..Len(walk)})

\* most steps one reference attribute of a render call can take when u
\* digests are outside its guard set: one, or a nested call and its steps
RECURSIVE AttrCost(_, _)
AttrCost(L, u) ==
    IF u = 0 THEN 1 ELSE 2 + L * AttrCost(L, u - 1)

\* the reference attributes frame k has not yet started
Remaining(k) ==
    IF Walk[stack[k].part].ctype # HTML THEN 0
    ELSE IF k = Len(stack) THEN Len(stack[k].doc) - stack[k].i + 1
    ELSE Len(stack[k].doc) - stack[k].i

\* most steps the frames of the stack still take: per frame its return and
\* its remaining attributes
Measure ==
    LET L == LongestDoc(Walk)
        D == Digests(Walk)
        cost == [u \in 0..Cardinality(D) |-> AttrCost(L, u)]
        RECURSIVE Sum(_)
        Sum(k) == IF k = 0 THEN 0
                  ELSE Sum(k - 1) + 1
                       + Remaining(k) * cost[Cardinality(D \ stack[k].seen)]
    IN  Sum(Len(stack))

\* C1: with the directory variant every step of a render makes a
\* natural-number bound on the steps still to come strictly smaller, and
\* leaves either a frame to go on with or the top-level call returned: every
\* chain of nested render / render_data calls is finite, whatever the
\* reference graph and the files already in the backing store.
C1_RenderTerminates ==
    [][(variant = "dir" /\ pc = "render")
        => /\ pc' \in {"render", "returned"}
           /\ pc' = "returned" <=> stack' = <<>>
           /\ Measure' < Measure]_vars

\* the same, as a liveness property of FairSpec: a directory-variant render
\* in progress leads to its return
RenderLeadsToReturn ==
    (variant = "dir" /\ pc = "render") ~> (pc = "returned")

\* C1 witness: a conversion has returned after writing a part that
\* references itself (the file names itself).
C1_Witness ==
    /\ variant = "dir"
    /\ pc = "returned"
    /\ \E k \in WritesOfRun :
          \E j \in 1..Len(writes[k].binary) : writes[k].binary[j] = writes[k].path

\* C2 (as stated): while HTML part B is rendered nested inside the root A,
\* every reference of B that resolves to A keeps its original value and A is
\* not rendered again.
C2_CycleBrokenAtSecondHop ==
    (pc = "render" /\ Len(stack) >= 2 /\ Walk[stack[2].part].ctype = HTML) =>
        \A k \in 1..Len(stack[2].doc) :
            LET href == Walk[stack[2].part].payload[k]
            IN  (href # Empty
                 /\ Resolve(mapper, Walk[stack[2].part], href) = stack[1].part)
                => /\ stack[2].doc[k] = href
                   /\ Len(stack) >= 3 => stack[3].part # stack[1].part

\* C3 (as stated): in both variants render_data returns None when the part
\* is None or its digest is in seen, and the attribute is left unmodified.
C3_NullWhenSeen ==
    [][(StepAtRef /\ (Mref = 0 \/ Target.digest \in Top.seen))
        => /\ ret' = None
           /\ stack' = [stack EXCEPT ![Len(stack)].i = @ + 1]]_vars

\* C3 (amended): render_data returns None when the part is None; when the
\* digest is in seen the inline variant returns None and the attribute is
\* unmodified, the directory variant returns blob=<digest><ext> and the
\* attribute is rewritten to it; nothing is rendered or written either way.
C3_SeenReturn ==
    [][(StepAtRef /\ (Mref = 0 \/ Target.digest \in Top.seen))
        => LET href == IF Mref # 0 /\ variant = "dir"
                       THEN [blob |-> Target.digest, ext |-> Target.extension]
                       ELSE None
           IN  /\ ret' = href
               /\ stack' = [stack EXCEPT ![Len(stack)] =
                     [@ EXCEPT !.i = @ + 1,
                               !.doc = IF href = None THEN @
                                       ELSE [@ EXCEPT ![Top.i] = href]]]
               /\ store' = store
               /\ writes' = writes
               /\ pc' = pc]_vars

\* C3 witness: the directory variant has just returned the filename of a
\* part whose digest is in the guard set, and the attribute holds it.
C3_Witness ==
    /\ pc = "render"
    /\ variant = "dir"
    /\ stack # <<>>
    /\ Top.i > 1
    /\ LET href == TopPart.payload[Top.i - 1]
           n    == Resolve(mapper, TopPart, href)
       IN  /\ href # Empty
           /\ n # 0
           /\ Sha256(Walk[n].payload) \in Top.seen
           /\ ret = FileOf(Walk, n)
           /\ Top.doc[Top.i - 1] = ret

\* C4 (as stated): no filename is written twice or over an existing file,
\* and a reference to a digest that was written before returns the path that
\* was written for that digest.
C4_SameDigestSamePath ==
    /\ \A k \in 1..Len(writes) :
          /\ ~writes[k].existed
          /\ \A j \in 1..Len(writes) : writes[j].path = writes[k].path => j = k
    /\ ret # None =>
          \A k \in 1..Len(writes) :
              writes[k].path.blob = ret.blob => writes[k].path = ret

\* C4 (amended): a blob file is written only where none exists and no
\* filename is written twice, across conversions; no render is started for a
\* file that exists; every reference resolved by the directory variant
\* without a nested render gets the filename made of the target's digest and
\* extension.
C4_BlobWrittenOnce ==
    [][/\ store \subseteq store'
       /\ writes' # writes =>
            LET w == writes'[Len(writes')]
            IN  /\ w.path \notin store
                /\ \A k \in 1..Len(writes) : writes[k].path # w.path
       /\ (Len(stack) >= 1 /\ Len(stack') > Len(stack)) =>
            stack'[Len(stack')].path \notin store
       /\ (StepAtRef /\ variant = "dir" /\ Mref # 0
           /\ Len(stack') = Len(stack)) =>
            ret' = [blob |-> Target.digest, ext |-> Target.extension]]_vars

\* C4 witness: a later conversion got the filename of a file written by an
\* earlier one, without writing it again.
C4_Witness ==
    /\ runs > 1
    /\ pc = "returned"
    /\ ret # None
    /\ \E k \in 1..Len(writes) : writes[k].run < runs /\ writes[k].path = ret
    /\ WritesOfRun = {}

\* C5 (as stated): in the inline variant a reference that resolves to a
\* part whose digest is not in the guard set makes render_data render that
\* part with its digest added to the guard set, without raising an error.
C5_InlineRendersTarget ==
    [][(StepAtRef /\ variant = "inline" /\ Mref # 0
        /\ Target.digest \notin Top.seen)
        => /\ pc' = "render"
           /\ Len(stack') = Len(stack) + 1
           /\ stack'[Len(stack')].seen = Top.seen \cup {Target.digest}]_vars

C8_RootSelection ==
    /\ (pc = "render" /\ stack # <<>>) =>
          LET r == stack[1].part
          IN  IF StartParts(Walk) # {}
              THEN r \in StartParts(Walk)
              ELSE /\ ~Walk[r].multipart
                   /\ \A n \in 1..(r - 1) : Walk[n].multipart
    /\ \A k \in 1..(cur - 1) :
          /\ StartParts(argv[k]) = {}
          /\ \A n \in 1..Len(argv[k]) : argv[k][n].multipart
    /\ diag = cur - 1

\* C8 witness: the root is a part named by a start parameter and is not the
\* first non-multipart part.
C8_Witness ==
    /\ pc = "render"
    /\ stack # <<>>
    /\ stack[1].part \in StartParts(Walk)
    /\ \E n \in 1..(stack[1].part - 1) : ~Walk[n].multipart

\* C9: the guard set of every active render call is exactly the digests of
\* the nested calls on the path to it: nothing rendered under an earlier
\* sibling reference is added to it.
C9_GuardIsRecursionPath ==
    \A k \in 1..Len(stack) :
        stack[k].seen = {Sha256(Walk[stack[j].part].payload) : j \in 2..k}

\* C9 witness: a later sibling reference points at a part that was rendered
\* under an earlier reference of this conversion and is not in the guard set.
C9_Witness ==
    /\ StepAtRef
    /\ variant = "dir"
    /\ Top.i > 1
    /\ Mref # 0
    /\ Target.digest \notin Top.seen
    /\ \E k \in WritesOfRun : writes[k].path = FileOf(Walk, Mref)

\* C10 (as stated): when a top-level render of the directory variant has
\* returned, every blob filename in the root output or in a file written by
\* this conversion names a file of the backing store.
C10_SubstitutedFilesExist ==
    (variant = "dir" /\ pc = "returned") =>
        \A f \in BlobsIn(rootOut)
                 \cup UNION {BlobsIn(writes[k].binary) : k \in WritesOfRun} :
            f \in store

====
